---- MODULE Spec2Model ----
(***************************************************************************)
(* Ballistic.jsx: the manual-parameter form, preset resolution (getParams) *)
(* and the RK4 trajectory driver (runSimulation) of the ballistic view.    *)
(*                                                                         *)
(* Numbers.  The source computes in IEEE doubles; the model computes in    *)
(* integers of fixed unit:                                                 *)
(*   position      m            velocity      mm/s                         *)
(*   acceleration  mm/s^2       mass          g         mass flow  g/s     *)
(*   time          quarter seconds (dt = 0.5 s = 2, dt/2 = 1)              *)
(*   thrustToWeight, dragCoeff  hundredths    Mach      thousandths        *)
(*   air density   mg/m^3       speed of sound cm/s                        *)
(* A form field holds what React state holds: a number, or the empty text  *)
(* that an <input type="number"> reports for anything that is not one.     *)
(***************************************************************************)
EXTENDS Integers, Sequences, FiniteSets, TLC

VARIABLES
  mode, selectedMissile,            \* useState: 'manual' | 'preset', preset key
  elevationAngle, launchMass, thrustToWeight, dragCoeff, isp, launchHeight,
  missiles,                         \* the REAL_MISSILES object
  pc,                               \* position inside runSimulation: "idle", "loop", "done"
  params,                           \* const params = getParams()
  state, t, separated, trajectory,  \* locals of runSimulation
  kEvals,                           \* the four derivative evaluations of the last rk4Step
  trajectoryData,                   \* useState: "null", or which array it names:
                                    \* "trajectory", or "previous" (that of the run before)
  stats, isSimulating, isAnimating, animationIndex,
  ref,                              \* observer: first completed run (DetSpec only)
  probe,                            \* a function applied on its own: arguments and result
  app,                              \* app.jsx: the useState values of App, by name
  localStorage,                     \* ballisticHistory_<username>, by username
  request,                          \* the /predict request in flight, with what its closure holds
  timers                            \* pending 300 ms 'start animation' timers of App

formVars == <<elevationAngle, launchMass, thrustToWeight, dragCoeff, isp, launchHeight>>
runVars  == <<pc, params, state, t, separated, trajectory, kEvals>>
uiVars   == <<trajectoryData, stats, isSimulating, isAnimating, animationIndex>>
appVars  == <<app, localStorage, request, timers>>
ballisticVars == <<mode, selectedMissile, formVars, missiles, runVars, uiVars, ref, probe>>
vars == <<ballisticVars, appVars>>

NULL == [null |-> TRUE]

----------------------------------------------------------------------------
(* Field values                                                            *)

Num(n) == [txt |-> "num", n |-> n]
Empty  == [txt |-> "", n |-> 0]

\* isNaN(parseFloat(v))
IsNaN(v) == v.txt # "num"

\* JavaScript ToNumber on a field value: '' converts to 0
ToNum(v) == v.n

Min(a, b) == IF a < b THEN a ELSE b
Max(a, b) == IF a > b THEN a ELSE b

----------------------------------------------------------------------------
(* Constants of Ballistic.jsx                                              *)

DEFAULT_PARAMS == [emptyMass |-> 1600, warheadMass |-> 800]

REAL_MISSILES ==
  "minuteman3" :> [elevationAngle |-> 86, launchMass |-> 36030, emptyMass |-> 2180, warheadMass |-> 1140,
                   thrustToWeight |-> 240, dragCoeff |-> 15, isp |-> 265, launchHeight |-> 0, burnTime |-> 180] @@
  "trident2"   :> [elevationAngle |-> 87, launchMass |-> 58967, emptyMass |-> 3500, warheadMass |-> 2800,
                   thrustToWeight |-> 220, dragCoeff |-> 12, isp |-> 276, launchHeight |-> -30, burnTime |-> 120] @@
  "dongfeng41" :> [elevationAngle |-> 88, launchMass |-> 80000, emptyMass |-> 5000, warheadMass |-> 2500,
                   thrustToWeight |-> 230, dragCoeff |-> 13, isp |-> 280, launchHeight |-> 0, burnTime |-> 180] @@
  "sarmat"     :> [elevationAngle |-> 89, launchMass |-> 208100, emptyMass |-> 12000, warheadMass |-> 10000,
                   thrustToWeight |-> 210, dragCoeff |-> 11, isp |-> 287, launchHeight |-> 0, burnTime |-> 300] @@
  "agni5"      :> [elevationAngle |-> 86, launchMass |-> 50000, emptyMass |-> 3000, warheadMass |-> 1500,
                   thrustToWeight |-> 210, dragCoeff |-> 14, isp |-> 260, launchHeight |-> 0, burnTime |-> 150] @@
  "topol_m"    :> [elevationAngle |-> 87, launchMass |-> 47200, emptyMass |-> 2800, warheadMass |-> 1200,
                   thrustToWeight |-> 210, dragCoeff |-> 14, isp |-> 270, launchHeight |-> 0, burnTime |-> 170] @@
  "dongfeng5b" :> [elevationAngle |-> 88, launchMass |-> 183000, emptyMass |-> 10000, warheadMass |-> 3200,
                   thrustToWeight |-> 220, dragCoeff |-> 12, isp |-> 275, launchHeight |-> 0, burnTime |-> 280] @@
  "jl2"        :> [elevationAngle |-> 86, launchMass |-> 42000, emptyMass |-> 2500, warheadMass |-> 1050,
                   thrustToWeight |-> 200, dragCoeff |-> 13, isp |-> 265, launchHeight |-> -40, burnTime |-> 140] @@
  "pershing2"  :> [elevationAngle |-> 75, launchMass |-> 7462, emptyMass |-> 2400, warheadMass |-> 653,
                   thrustToWeight |-> 190, dragCoeff |-> 16, isp |-> 250, launchHeight |-> 0, burnTime |-> 100] @@
  "agni2"      :> [elevationAngle |-> 78, launchMass |-> 16000, emptyMass |-> 1200, warheadMass |-> 1000,
                   thrustToWeight |-> 180, dragCoeff |-> 16, isp |-> 250, launchHeight |-> 0, burnTime |-> 90] @@
  "shahab3"    :> [elevationAngle |-> 72, launchMass |-> 16500, emptyMass |-> 1500, warheadMass |-> 760,
                   thrustToWeight |-> 170, dragCoeff |-> 18, isp |-> 235, launchHeight |-> 0, burnTime |-> 110] @@
  "nodong1"    :> [elevationAngle |-> 70, launchMass |-> 15852, emptyMass |-> 1400, warheadMass |-> 700,
                   thrustToWeight |-> 160, dragCoeff |-> 19, isp |-> 226, launchHeight |-> 0, burnTime |-> 115] @@
  "dongfeng21d" :> [elevationAngle |-> 80, launchMass |-> 14700, emptyMass |-> 1200, warheadMass |-> 600,
                   thrustToWeight |-> 190, dragCoeff |-> 15, isp |-> 255, launchHeight |-> 0, burnTime |-> 70] @@
  "iskander"   :> [elevationAngle |-> 55, launchMass |-> 3800, emptyMass |-> 1200, warheadMass |-> 700,
                   thrustToWeight |-> 180, dragCoeff |-> 18, isp |-> 240, launchHeight |-> 0, burnTime |-> 28] @@
  "scud"       :> [elevationAngle |-> 55, launchMass |-> 5862, emptyMass |-> 1840, warheadMass |-> 985,
                   thrustToWeight |-> 160, dragCoeff |-> 22, isp |-> 226, launchHeight |-> 0, burnTime |-> 80] @@
  "prithvi2"   :> [elevationAngle |-> 60, launchMass |-> 4600, emptyMass |-> 1300, warheadMass |-> 500,
                   thrustToWeight |-> 150, dragCoeff |-> 20, isp |-> 235, launchHeight |-> 0, burnTime |-> 40] @@
  "atacms"     :> [elevationAngle |-> 60, launchMass |-> 1670, emptyMass |-> 580, warheadMass |-> 227,
                   thrustToWeight |-> 200, dragCoeff |-> 17, isp |-> 245, launchHeight |-> 0, burnTime |-> 27] @@
  "hwasong11"  :> [elevationAngle |-> 55, launchMass |-> 3400, emptyMass |-> 1000, warheadMass |-> 500,
                   thrustToWeight |-> 170, dragCoeff |-> 18, isp |-> 240, launchHeight |-> 0, burnTime |-> 35] @@
  "tomahawk"   :> [elevationAngle |-> 35, launchMass |-> 1440, emptyMass |-> 540, warheadMass |-> 450,
                   thrustToWeight |-> 160, dragCoeff |-> 25, isp |-> 280, launchHeight |-> 0, burnTime |-> 60] @@
  "kalibr"     :> [elevationAngle |-> 38, launchMass |-> 2300, emptyMass |-> 850, warheadMass |-> 450,
                   thrustToWeight |-> 170, dragCoeff |-> 22, isp |-> 270, launchHeight |-> 0, burnTime |-> 70] @@
  "brahmos"    :> [elevationAngle |-> 50, launchMass |-> 3000, emptyMass |-> 1200, warheadMass |-> 300,
                   thrustToWeight |-> 200, dragCoeff |-> 18, isp |-> 260, launchHeight |-> 0, burnTime |-> 45] @@
  "stormshadow" :> [elevationAngle |-> 25, launchMass |-> 1300, emptyMass |-> 480, warheadMass |-> 450,
                   thrustToWeight |-> 180, dragCoeff |-> 20, isp |-> 265, launchHeight |-> 10000, burnTime |-> 35] @@
  "avangard"   :> [elevationAngle |-> 87, launchMass |-> 105000, emptyMass |-> 5500, warheadMass |-> 2000,
                   thrustToWeight |-> 220, dragCoeff |-> 10, isp |-> 285, launchHeight |-> 0, burnTime |-> 180] @@
  "kinzhal"    :> [elevationAngle |-> 75, launchMass |-> 4300, emptyMass |-> 2000, warheadMass |-> 480,
                   thrustToWeight |-> 200, dragCoeff |-> 12, isp |-> 260, launchHeight |-> 13000, burnTime |-> 40] @@
  "dongfeng17" :> [elevationAngle |-> 82, launchMass |-> 15000, emptyMass |-> 2000, warheadMass |-> 500,
                   thrustToWeight |-> 220, dragCoeff |-> 8, isp |-> 270, launchHeight |-> 0, burnTime |-> 60] @@
  "v2"         :> [elevationAngle |-> 45, launchMass |-> 12508, emptyMass |-> 4039, warheadMass |-> 980,
                   thrustToWeight |-> 152, dragCoeff |-> 25, isp |-> 203, launchHeight |-> 0, burnTime |-> 65] @@
  "falcon9s1"  :> [elevationAngle |-> 80, launchMass |-> 549054, emptyMass |-> 25600, warheadMass |-> 22800,
                   thrustToWeight |-> 140, dragCoeff |-> 20, isp |-> 282, launchHeight |-> 0, burnTime |-> 162]

DefaultElevationAngle == 75
DefaultLaunchMass     == 6200
DefaultThrustToWeight == 150
DefaultDragCoeff      == 20
DefaultIsp            == 237
DefaultLaunchHeight   == 0

----------------------------------------------------------------------------
(* getParams                                                               *)

\* a preset lookup that takes the launch mass from the manual form
getParamsFormMass ==
  LET missile == missiles[selectedMissile]
  IN [elevationAngle |-> Num(missile.elevationAngle),
      launchMass     |-> launchMass,
      emptyMass      |-> missile.emptyMass,
      warheadMass    |-> missile.warheadMass,
      thrustToWeight |-> Num(missile.thrustToWeight),
      dragCoeff      |-> Num(missile.dragCoeff),
      isp            |-> Num(missile.isp),
      launchHeight   |-> Num(missile.launchHeight),
      burnTime       |-> missile.burnTime]

getParams ==
  IF mode = "preset"
  THEN LET missile == missiles[selectedMissile]
       IN [elevationAngle |-> Num(missile.elevationAngle),
           launchMass     |-> Num(missile.launchMass),
           emptyMass      |-> missile.emptyMass,
           warheadMass    |-> missile.warheadMass,
           thrustToWeight |-> Num(missile.thrustToWeight),
           dragCoeff      |-> Num(missile.dragCoeff),
           isp            |-> Num(missile.isp),
           launchHeight   |-> Num(missile.launchHeight),
           burnTime       |-> missile.burnTime]
  ELSE [elevationAngle |-> elevationAngle,
        launchMass     |-> launchMass,
        emptyMass      |-> DEFAULT_PARAMS.emptyMass,
        warheadMass    |-> DEFAULT_PARAMS.warheadMass,
        thrustToWeight |-> thrustToWeight,
        dragCoeff      |-> dragCoeff,
        isp            |-> isp,
        launchHeight   |-> launchHeight,
        burnTime       |-> 0]

----------------------------------------------------------------------------
(* The manual form: onChange / onBlur of the six inputs                    *)

\* what e.target.value can be in the modelled runs
ElevationInputs == {Num(5), Empty}
MassInputs      == {Num(500), Num(-5)}
ThrustInputs    == {Num(600)}
DragInputs      == {Num(0)}
IspInputs       == {Num(50)}
HeightInputs    == {Num(60000), Empty}

\* onChange of the Elevation Angle input: any number is stored
ChangedElevation(cur, val) ==
  IF val.txt = "" THEN val
  ELSE IF ~IsNaN(val) THEN Num(val.n) ELSE cur

\* onChange of the other five inputs: only numbers >= 0 are stored
ChangedNonNeg(cur, val) ==
  IF val.txt = "" THEN val
  ELSE IF ~IsNaN(val) /\ val.n >= 0 THEN Num(val.n) ELSE cur

\* onBlur: isNaN(num) ? dflt : Math.max(lo, Math.min(hi, num))
BlurClamp(cur, dflt, lo, hi) ==
  IF IsNaN(cur) THEN Num(dflt) ELSE Num(Max(lo, Min(hi, cur.n)))

\* onBlur of Release Height: isNaN(num) || num < 0 ? 0 : Math.min(50000, num)
BlurHeight(cur) ==
  IF IsNaN(cur) \/ cur.n < 0 THEN Num(0) ELSE Num(Min(50000, cur.n))

Idle == pc = "idle"

\* the manual panel is rendered only in manual mode
ManualPanel == Idle /\ mode = "manual"

OnChangeElevationAngle(val) ==
  /\ ManualPanel
  /\ elevationAngle' = ChangedElevation(elevationAngle, val)
  /\ UNCHANGED <<mode, selectedMissile, launchMass, thrustToWeight, dragCoeff, isp,
                 launchHeight, missiles, runVars, uiVars, ref, probe, appVars>>

OnBlurElevationAngle ==
  /\ ManualPanel
  /\ elevationAngle' = BlurClamp(elevationAngle, DefaultElevationAngle, 10, 90)
  /\ UNCHANGED <<mode, selectedMissile, launchMass, thrustToWeight, dragCoeff, isp,
                 launchHeight, missiles, runVars, uiVars, ref, probe, appVars>>

OnChangeLaunchMass(val) ==
  /\ ManualPanel
  /\ launchMass' = ChangedNonNeg(launchMass, val)
  /\ UNCHANGED <<mode, selectedMissile, elevationAngle, thrustToWeight, dragCoeff, isp,
                 launchHeight, missiles, runVars, uiVars, ref, probe, appVars>>

OnBlurLaunchMass ==
  /\ ManualPanel
  /\ launchMass' = BlurClamp(launchMass, DefaultLaunchMass, 1000, 250000)
  /\ UNCHANGED <<mode, selectedMissile, elevationAngle, thrustToWeight, dragCoeff, isp,
                 launchHeight, missiles, runVars, uiVars, ref, probe, appVars>>

OnChangeThrustToWeight(val) ==
  /\ ManualPanel
  /\ thrustToWeight' = ChangedNonNeg(thrustToWeight, val)
  /\ UNCHANGED <<mode, selectedMissile, elevationAngle, launchMass, dragCoeff, isp,
                 launchHeight, missiles, runVars, uiVars, ref, probe, appVars>>

OnBlurThrustToWeight ==
  /\ ManualPanel
  /\ thrustToWeight' = BlurClamp(thrustToWeight, DefaultThrustToWeight, 50, 500)
  /\ UNCHANGED <<mode, selectedMissile, elevationAngle, launchMass, dragCoeff, isp,
                 launchHeight, missiles, runVars, uiVars, ref, probe, appVars>>

OnChangeDragCoeff(val) ==
  /\ ManualPanel
  /\ dragCoeff' = ChangedNonNeg(dragCoeff, val)
  /\ UNCHANGED <<mode, selectedMissile, elevationAngle, launchMass, thrustToWeight, isp,
                 launchHeight, missiles, runVars, uiVars, ref, probe, appVars>>

OnBlurDragCoeff ==
  /\ ManualPanel
  /\ dragCoeff' = BlurClamp(dragCoeff, DefaultDragCoeff, 5, 100)
  /\ UNCHANGED <<mode, selectedMissile, elevationAngle, launchMass, thrustToWeight, isp,
                 launchHeight, missiles, runVars, uiVars, ref, probe, appVars>>

OnChangeIsp(val) ==
  /\ ManualPanel
  /\ isp' = ChangedNonNeg(isp, val)
  /\ UNCHANGED <<mode, selectedMissile, elevationAngle, launchMass, thrustToWeight, dragCoeff,
                 launchHeight, missiles, runVars, uiVars, ref, probe, appVars>>

OnBlurIsp ==
  /\ ManualPanel
  /\ isp' = BlurClamp(isp, DefaultIsp, 100, 500)
  /\ UNCHANGED <<mode, selectedMissile, elevationAngle, launchMass, thrustToWeight, dragCoeff,
                 launchHeight, missiles, runVars, uiVars, ref, probe, appVars>>

OnChangeLaunchHeight(val) ==
  /\ ManualPanel
  /\ launchHeight' = ChangedNonNeg(launchHeight, val)
  /\ UNCHANGED <<mode, selectedMissile, elevationAngle, launchMass, thrustToWeight, dragCoeff,
                 isp, missiles, runVars, uiVars, ref, probe, appVars>>

OnBlurLaunchHeight ==
  /\ ManualPanel
  /\ launchHeight' = BlurHeight(launchHeight)
  /\ UNCHANGED <<mode, selectedMissile, elevationAngle, launchMass, thrustToWeight, dragCoeff,
                 isp, missiles, runVars, uiVars, ref, probe, appVars>>

\* the Manual / Real pill buttons
SetMode(m) ==
  /\ Idle
  /\ mode' = m
  /\ UNCHANGED <<selectedMissile, formVars, missiles, runVars, uiVars, ref, probe, appVars>>

\* a click on an entry of the missile dropdown (shown in preset mode)
SelectMissile(key) ==
  /\ Idle
  /\ mode = "preset"
  /\ selectedMissile' = key
  /\ UNCHANGED <<mode, formVars, missiles, runVars, uiVars, ref, probe, appVars>>

----------------------------------------------------------------------------
(* Integer arithmetic standing in for the doubles                          *)

\* the largest integer the arithmetic may reach (2^31 - 1)
MaxInt == 1073741823 * 2 + 1

Abs(a) == IF a < 0 THEN -a ELSE a

\* a * b / c for a, b >= 0 and c > 0 without leaving 32 bits: exact when the
\* product fits, when c <= 46340 or when the remainders' product fits, else
\* with operands scaled down by a common factor
MulDiv(a, b, c) ==
  IF a = 0 \/ b <= MaxInt \div a THEN (a * b) \div c
  ELSE IF c <= 46340
  THEN (a \div c) * b + (a % c) * (b \div c) + ((a % c) * (b % c)) \div c
  ELSE LET big == Max(a, b)
           sml == Min(a, b)
       IN IF sml <= MaxInt \div (c - 1)
          THEN (big \div c) * sml + ((big % c) * sml) \div c
          ELSE LET U == big \div (MaxInt \div sml) + 1
               IN ((big \div U) * sml) \div (c \div U)

\* signed a * b / c, c > 0, rounded toward zero
SMulDiv(a, b, c) ==
  IF (a >= 0) = (b >= 0) THEN MulDiv(Abs(a), Abs(b), c)
  ELSE -MulDiv(Abs(a), Abs(b), c)

\* a / b rounded to nearest, b > 0
RDiv(a, b) ==
  LET q == Abs(a) \div b + (IF 2 * (Abs(a) % b) >= b THEN 1 ELSE 0)
  IN IF a >= 0 THEN q ELSE -q

\* Math.sqrt on integers: Newton's iteration downward from g >= sqrt(n)
RECURSIVE ISqrtFrom(_, _)
ISqrtFrom(n, g) ==
  LET g2 == (g + n \div g) \div 2
  IN IF g2 >= g THEN g ELSE ISqrtFrom(n, g2)

\* unit vectors and the sine table carry 14 fractional bits
UNIT == 128 * 128

SinTab ==
  <<
     0, 286, 572, 857, 1143, 1428, 1713, 1997, 2280, 2563, 2845, 3126, 3406,
     3686, 3964, 4240, 4516, 4790, 5063, 5334, 5604, 5872, 6138, 6402, 6664, 6924,
     7182, 7438, 7692, 7943, 8192, 8438, 8682, 8923, 9162, 9397, 9630, 9860, 10087,
     10311, 10531, 10749, 10963, 11174, 11381, 11585, 11786, 11982, 12176, 12365, 12551, 12733,
     12911, 13085, 13255, 13421, 13583, 13741, 13894, 14044, 14189, 14330, 14466, 14598, 14726,
     14849, 14968, 15082, 15191, 15296, 15396, 15491, 15582, 15668, 15749, 15826, 15897, 15964,
     16026, 16083, 16135, 16182, 16225, 16262, 16294, 16322, 16344, 16362, 16374, 16382, 16384 >>

\* Math.sin / Math.cos of a whole number of degrees
SinDeg(d) ==
  LET e == d % 360
  IN IF e <= 90 THEN SinTab[e + 1]
     ELSE IF e <= 180 THEN SinTab[181 - e]
     ELSE IF e <= 270 THEN -SinTab[e - 179]
     ELSE -SinTab[361 - e]

CosDeg(d) == SinDeg(d + 90)

\* fixed point with 15 fractional bits for logarithms and exponentials
FP  == 2 * UNIT
\* ln 2 with 15 fractional bits
LN2 == (UNIT * 69315) \div 50000

\* Math.log of x (15 fractional bits), 0.7 <= x <= 1.1: 2 atanh((x-1)/(x+1))
Ln(x) ==
  LET w  == ((x - FP) * FP) \div (x + FP)
      w2 == (w * w) \div FP
  IN (2 * w * (FP + w2 \div 3 + ((w2 * w2) \div FP) \div 5)) \div FP

\* Math.exp(-z) for z >= 0 (15 fractional bits), result with 30 fractional bits
ExpNeg30(z) ==
  LET k  == z \div LN2
      f  == z % LN2
      e7 == FP - (f * FP) \div (7 * FP)
      e6 == FP - (f * e7) \div (6 * FP)
      e5 == FP - (f * e6) \div (5 * FP)
      e4 == FP - (f * e5) \div (4 * FP)
      e3 == FP - (f * e4) \div (3 * FP)
      e2 == FP - (f * e3) \div (2 * FP)
      e1 == FP - (f * e2) \div FP
  IN IF k <= 30 THEN (e1 * FP) \div (2 ^ k) ELSE 0

----------------------------------------------------------------------------
(* Vector helpers                                                          *)

\* norm(v) = Math.sqrt(v[0] * v[0] + v[1] * v[1])
norm(v) ==
  LET a == Max(Abs(v[1]), Abs(v[2]))
      b == Min(Abs(v[1]), Abs(v[2]))
      U == a \div 16384 + 1
      as == a \div U
      bs == b \div U
      rc == ISqrtFrom(as * as + bs * bs, as + bs + 1) * U
  IN IF b = 0 THEN a ELSE a + MulDiv(b, b, a + rc)

\* normalize(v): n > 0 ? [v[0] / n, v[1] / n] : [0, 0], scaled by UNIT
normalize(v) ==
  LET n == norm(v)
  IN IF n > 0 THEN <<SMulDiv(v[1], UNIT, n), SMulDiv(v[2], UNIT, n)>> ELSE <<0, 0>>

\* rotate(vector, thetaDeg)
rotate(vector, thetaDeg) ==
  LET cos == CosDeg(thetaDeg)
      sin == SinDeg(thetaDeg)
  IN << (cos * vector[1] - sin * vector[2]) \div UNIT,
        (sin * vector[1] + cos * vector[2]) \div UNIT >>

\* the sign of dot(r, v) for a unit vector rhat along r and a velocity v
dot(rhat, v) == rhat[1] * (v[1] \div 1024) + rhat[2] * (v[2] \div 1024)

----------------------------------------------------------------------------
(* Physical constants and the atmosphere                                   *)

R_E  == 6371000      \* mean Earth radius (m)
GM6  == 398600542    \* G * M_E / 10^6 (m^3/s^2)
G0MM == 9807         \* g0 (mm/s^2)
A4   == 7854         \* DEFAULT_PARAMS.crossSection = pi * 0.5 * 0.5 (10^-4 m^2)
T0_ISA  == 288150    \* sea level temperature (mK)
T11_ISA == 216650    \* 216.65 K (mK)
TMESO   == 186870    \* 186.87 K (mK)

\* P / (R_GAS * T) for a pressure P / P0_ISA with 30 fractional bits and a
\* temperature in mK, in mg/m^3 (P0_ISA / R_GAS * 10^9 / 2^30 = 3530 / 10737)
Density(P30, T) == MulDiv(MulDiv(P30, 1000, T), 3530, 10737)

\* -ln(216.65 / T0_ISA) * g0 / (L_ISA * R_GAS): the exponent of P11
Z11 == ((-Ln(MulDiv(T11_ISA, FP, T0_ISA))) * 52559) \div 10000

\* g0 * 9000 / (R_GAS * 216.65): the exponent of P20 / P11
Z9000 == MulDiv(9000, FP * 10, 63416)

\* the temperature (mK) of each band
TTroposphere(altitude)        == T0_ISA - RDiv(13 * altitude, 2)
TLowerStratosphere(altitude)  == T11_ISA
TUpperStratosphere(altitude)  == T11_ISA + (altitude - 20000)
TMesosphere(altitude)         == TMESO

\* the density (mg/m^3) of each band
RhoTroposphere(altitude) ==
  LET T == TTroposphere(altitude)
      P == ExpNeg30(((-Ln(MulDiv(T, FP, T0_ISA))) * 52559) \div 10000)
  IN Density(P, T)

\* Lower stratosphere (isothermal)
RhoLowerStratosphere(altitude) ==
  LET P == ExpNeg30(Z11 + MulDiv(altitude - 11000, FP * 10, 63416))
  IN Density(P, TLowerStratosphere(altitude))

RhoUpperStratosphere(altitude) ==
  LET T == TUpperStratosphere(altitude)
      P == ExpNeg30(Z11 + Z9000 + (Ln(MulDiv(T, FP, T11_ISA)) * 34164) \div 1000)
  IN Density(P, T)

\* Mesosphere - exponential decay approximation
RhoMesosphere(altitude) ==
  Density(ExpNeg30(MulDiv(altitude, FP, 8500)), TMesosphere(altitude))

\* an atmosphere whose mesosphere has no upper end
getAirDensityUnbounded(alt) ==
  LET altitude == IF alt < 0 THEN 0 ELSE alt
  IN IF altitude <= 11000 THEN RhoTroposphere(altitude)
     ELSE IF altitude <= 20000 THEN RhoLowerStratosphere(altitude)
     ELSE IF altitude <= 32000 THEN RhoUpperStratosphere(altitude)
     ELSE RhoMesosphere(altitude)

getAirDensity(alt) ==
  LET altitude == IF alt < 0 THEN 0 ELSE alt
  IN IF altitude <= 11000 THEN RhoTroposphere(altitude)
     ELSE IF altitude <= 20000 THEN RhoLowerStratosphere(altitude)
     ELSE IF altitude <= 32000 THEN RhoUpperStratosphere(altitude)
     ELSE IF altitude <= 84000 THEN RhoMesosphere(altitude)
     ELSE 0

\* G * M_E / (r * r) in mm/s^2
getLocalGravity(altitude) ==
  LET r == R_E + altitude
  IN MulDiv(MulDiv(GM6, 1000, r), 1000000, r)

\* Math.sqrt(GAMMA * R_GAS * T) for T in mK, in cm/s
SoundAt(T) == ISqrtFrom(MulDiv(T, 40187, 10), 46340)

\* getSpeedOfSound: the altitude is not clamped here
getSpeedOfSound(altitude) ==
  SoundAt(IF altitude <= 11000 THEN TTroposphere(altitude)
          ELSE IF altitude <= 20000 THEN TLowerStratosphere(altitude)
          ELSE IF altitude <= 32000 THEN TUpperStratosphere(altitude)
          ELSE TMesosphere(altitude))

----------------------------------------------------------------------------
(* Mach-dependent drag coefficient                                         *)

\* getDragCoefficient returns its value as a count of 1 / CdDen: baseCd in
\* hundredths, mach in thousandths, every branch exact
CdDen == 100 * 320000

CdSubsonic(baseCd, mach)   == baseCd * 320000
CdTransonic(baseCd, mach)  == baseCd * (320000 + (mach - 800) * (mach - 800))
CdSupersonic(baseCd, mach) == baseCd * (13200 - mach) * 32
CdHypersonic(baseCd, mach) == baseCd * 224000

getDragCoefficient(baseCd, mach) ==
  IF mach < 800 THEN CdSubsonic(baseCd, mach)
  ELSE IF mach < 1200 THEN CdTransonic(baseCd, mach)
  ELSE IF mach < 5000 THEN CdSupersonic(baseCd, mach)
  ELSE CdHypersonic(baseCd, mach)

----------------------------------------------------------------------------
(* runSimulation: values derived from params                               *)

m_0    == ToNum(params.launchMass) * 1000
m_f    == params.emptyMass * 1000
m_wh   == params.warheadMass * 1000
baseCd == ToNum(params.dragCoeff)
EA     == ToNum(params.elevationAngle)

\* F / v_e = m_0 * g0 * thrustToWeight / (isp * g0), in g/s
MassFlow ==
  IF ToNum(params.isp) > 0
  THEN RDiv(ToNum(params.launchMass) * 10 * ToNum(params.thrustToWeight), ToNum(params.isp))
  ELSE 0

\* (F * (m / m_0)) / m = g0 * thrustToWeight, in mm/s^2
ThrustAccel == (G0MM * ToNum(params.thrustToWeight)) \div 100

\* tq / 4 < burnTime * c / 4 for a time of tq quarter seconds, where
\* burnTime = params.burnTime || (m_0 - m_f) / (F / v_e); the estimate is
\* 0 or NaN when isp is 0, not positive when m_0 <= m_f, Infinity when the
\* mass flow is 0
BeforeBurnTime(tq, c) ==
  IF params.burnTime # 0 THEN tq < c * params.burnTime
  ELSE IF ToNum(params.isp) = 0 \/ m_0 <= m_f THEN FALSE
  ELSE IF MassFlow = 0 THEN TRUE
  ELSE tq <= (c * (m_0 - m_f) - 1) \div MassFlow

maxTime == 28800     \* 7200 s
dt      == 2         \* 0.5 s
GraceTime == 40      \* 10 s

launchAltitude == ToNum(params.launchHeight)
initialVy == IF launchAltitude > 1000 THEN 200000 ELSE 100000

\* a pointing policy that follows the velocity everywhere
decidePointingAlongVelocity(x, y, vx, vy) == normalize(<<vx, vy>>)

decidePointing(x, y, vx, vy) ==
  LET r    == <<x, y>>
      v    == <<vx, vy>>
      rhat == normalize(r)
      vhat == IF vx = 0 /\ vy = 0 THEN rhat ELSE normalize(v)
      h    == norm(r) - R_E
  IN IF h > 10000 THEN vhat
     ELSE IF dot(rhat, v) > 0 THEN rotate(rhat, EA - 90)
     ELSE vhat

\* a burn limit that ignores the time margin
ThrustingUntilEmpty(m, tq) == m > m_f

\* if (m > m_f && t < burnTime * 1.5)
Thrusting(m, tq) == m > m_f /\ BeforeBurnTime(tq, 6)

\* a mass flow that does not stop with the thrust
MassRateAlways(thrust) == -MassFlow

\* dmdt: -F / v_e in the thrust branch, 0 otherwise
MassRate(thrust) == IF thrust THEN -MassFlow ELSE 0

\* a flag recomputed by every evaluation instead of latched
SeparateUnlatched(sep, thrust, m) == ~thrust /\ m <= m_f

\* else if (!isSeparated && m <= m_f) { separated = true; isSeparated = true }
Separate(sep, thrust, m) == IF ~thrust /\ ~sep /\ m <= m_f THEN TRUE ELSE sep

\* derivatives(state, t) with the closure variable `separated` passed in
\* and out: k is [vx, vy, ax, ay, dmdt]; the other fields are the locals of
\* the evaluation
derivatives(s, tq, sep) ==
  LET x  == s[1]
      y  == s[2]
      vx == s[3]
      vy == s[4]
      m  == s[5]
      r  == norm(<<x, y>>)
      v  == norm(<<vx, vy>>)
      h  == r - R_E
      thrust == Thrusting(m, tq)
      phat == decidePointing(x, y, vx, vy)
      a_rocket == IF thrust
                  THEN <<SMulDiv(ThrustAccel, phat[1], UNIT), SMulDiv(ThrustAccel, phat[2], UNIT)>>
                  ELSE <<0, 0>>
      dmdt == MassRate(thrust)
      sepNow == Separate(sep, thrust, m)
      isSeparated == sepNow
      g_local == getLocalGravity(h)
      a_g == << -SMulDiv(g_local, x, r), -SMulDiv(g_local, y, r) >>
      rho == getAirDensity(h)
      effectiveMass == IF isSeparated THEN m_wh ELSE m
      effectiveArea == IF isSeparated THEN (A4 * 3) \div 10 ELSE A4
      speedOfSound == getSpeedOfSound(h)
      mach == MulDiv(v, 100, speedOfSound)
      C_D == getDragCoefficient(baseCd, mach)
      dragAccel == MulDiv(MulDiv(rho, MulDiv(v, v, 1000000), 200000),
                          MulDiv(C_D, effectiveArea, 32000),
                          effectiveMass \div 10) \div 1000
      vhat == normalize(<<vx, vy>>)
      a_drag == IF v > 0 /\ rho > 0
                THEN << -SMulDiv(dragAccel, vhat[1], UNIT), -SMulDiv(dragAccel, vhat[2], UNIT) >>
                ELSE <<0, 0>>
      a_cen == <<SMulDiv(x, 5317, 1000000000), SMulDiv(y, 5317, 1000000000)>>
      a_cor == <<SMulDiv(vy, 14584, 100000000), -SMulDiv(vx, 14584, 100000000)>>
  IN [k |-> << vx, vy,
               a_rocket[1] + a_g[1] + a_drag[1] + a_cen[1] + a_cor[1],
               a_rocket[2] + a_g[2] + a_drag[2] + a_cen[2] + a_cor[2],
               dmdt >>,
      separated |-> sepNow,
      t |-> tq, m |-> m, thrust |-> thrust, isSeparated |-> isSeparated,
      drag |-> a_drag,
      h |-> h, v |-> v, phat |-> phat, rocket |-> a_rocket,
      rho |-> rho, speedOfSound |-> speedOfSound, mach |-> mach,
      effectiveMass |-> effectiveMass, effectiveArea |-> effectiveArea]

\* state.map((s, i) => s + (n / d) * k[i]) for a step fraction n / d of a second
Advance(s, k, d) ==
  << s[1] + RDiv(k[1], d * 1000), s[2] + RDiv(k[2], d * 1000),
     s[3] + RDiv(k[3], d), s[4] + RDiv(k[4], d), s[5] + RDiv(k[5], d) >>

\* rk4Step(state, t, dt), one evaluation of derivatives after the other;
\* e1 .. e4 are the evaluations that give k1 .. k4, and the closure
\* variable `separated` is handed from each to the next
Rk4Combine(s, e1, e2, e3, e4) ==
  [state |-> Advance(s, [i \in 1..5 |-> e1.k[i] + 2 * e2.k[i] + 2 * e3.k[i] + e4.k[i]], 12),
   separated |-> e4.separated,
   evals |-> <<e1, e2, e3, e4>>]

Rk4After3(s, tq, e1, e2, e3) ==
  Rk4Combine(s, e1, e2, e3, derivatives(Advance(s, e3.k, 2), tq + dt, e3.separated))

Rk4After2(s, tq, e1, e2) ==
  Rk4After3(s, tq, e1, e2, derivatives(Advance(s, e2.k, 4), tq + 1, e2.separated))

Rk4After1(s, tq, e1) ==
  Rk4After2(s, tq, e1, derivatives(Advance(s, e1.k, 4), tq + 1, e1.separated))

rk4Step(s, tq, sep) == Rk4After1(s, tq, derivatives(s, tq, sep))

----------------------------------------------------------------------------
(* runSimulation: entry, the while loop, statistics and publication        *)

\* the object pushed onto trajectory for state s at time tq
Sample(s, tq) ==
  LET h == norm(<<s[1], s[2]>>) - R_E
      v == norm(<<s[3], s[4]>>)
      speedOfSound == getSpeedOfSound(Max(0, h))
  IN [t |-> tq, x |-> s[1], y |-> s[2], h |-> h, v |-> v,
      mach |-> MulDiv(v, 100, speedOfSound),
      m |-> s[5],
      phase |-> IF s[5] > m_f THEN "powered" ELSE "ballistic"]

\* a ground test without the grace period
HitGroundNoGrace(p) == p.h < 0

\* if (h < 0 && t > 10) break
HitGround(p) == p.h < 0 /\ p.t > GraceTime

\* a flag left as the previous run set it
StaleSeparated == separated

\* let separated = false
FreshSeparated == FALSE

\* t += dt
NextTime(tq) == tq + dt

\* the Launch button: runSimulation up to the first test of the while loop.
\* trajectoryData keeps naming the array of the previous run until the new
\* one is published; the samples of that array are not tracked meanwhile.
Launch ==
  /\ Idle
  /\ ~isSimulating /\ ~isAnimating
  /\ isSimulating' = TRUE
  /\ isAnimating' = FALSE
  /\ animationIndex' = 0
  /\ params' = getParams
  /\ state' = <<0, R_E + launchAltitude', 0, initialVy', m_0'>>
  /\ t' = 0
  /\ separated' = FreshSeparated
  /\ trajectory' = <<>>
  /\ kEvals' = <<>>
  /\ trajectoryData' = IF trajectoryData = "null" THEN "null" ELSE "previous"
  /\ pc' = "loop"
  /\ UNCHANGED <<mode, selectedMissile, formVars, missiles, stats, ref, probe, appVars>>

\* the variables of the while loop
LoopState ==
  [pc |-> pc, state |-> state, t |-> t, separated |-> separated,
   trajectory |-> trajectory, kEvals |-> kEvals]

\* a loop test that lets the ceiling itself through
LoopTestInclusive(tq) == tq <= maxTime

\* while (t < maxTime)
LoopTest(tq) == tq < maxTime

\* state = rk4Step(state, t, dt); t += dt; and the loop's test
Stepped(L, p, step) ==
  [pc |-> IF LoopTest(NextTime(L.t)) THEN "loop" ELSE "done",
   state |-> step.state,
   t |-> NextTime(L.t),
   separated |-> step.separated,
   trajectory |-> Append(L.trajectory, p),
   kEvals |-> step.evals]

\* a loop body that tests for the ground before it records the sample
PushedAfterTest(L, p) ==
  IF HitGround(p)
  THEN [L EXCEPT !.pc = "done"]
  ELSE Stepped(L, p, rk4Step(L.state, L.t, L.separated))

\* trajectory.push(p); if (h < 0 && t > 10) break; ...
Pushed(L, p) ==
  IF HitGround(p)
  THEN [L EXCEPT !.trajectory = Append(@, p), !.pc = "done"]
  ELSE Stepped(L, p, rk4Step(L.state, L.t, L.separated))

\* one pass of while (t < maxTime) { ... } from loop state L, up to the next
\* test of its condition
Pass(L) == Pushed(L, Sample(L.state, L.t))

\* the number of passes the time ceiling allows
MaxSamples == maxTime \div dt

\* up to n passes, stopping when the loop is left
RECURSIVE Passes(_, _)
Passes(L, n) ==
  IF n = 0 \/ L.pc # "loop" THEN L
  ELSE IF n = 1 THEN Pass(L)
  ELSE Passes(Passes(L, n \div 2), n - n \div 2)

SetLoopState(L) ==
  /\ pc' = L.pc
  /\ state' = L.state
  /\ t' = L.t
  /\ separated' = L.separated
  /\ trajectory' = L.trajectory
  /\ kEvals' = L.kEvals

\* one pass of the loop as a step
LoopIter ==
  /\ pc = "loop"
  /\ LoopTest(t)
  /\ SetLoopState(Pass(LoopState))
  /\ UNCHANGED <<mode, selectedMissile, formVars, missiles, params, uiVars, ref, probe, appVars>>

\* the loop from its first test to its exit as a single step: the passes
\* composed, up to one more than the time ceiling allows
RunLoop ==
  /\ pc = "loop"
  /\ LoopTest(t)
  /\ SetLoopState(Passes(LoopState, MaxSamples + 1))
  /\ UNCHANGED <<mode, selectedMissile, formVars, missiles, params, uiVars, ref, probe, appVars>>

\* Math.max(...xs) over xs[lo..hi]
RECURSIVE SeqMax(_, _, _)
SeqMax(xs, lo, hi) ==
  IF lo = hi THEN xs[lo]
  ELSE LET mid == (lo + hi) \div 2
       IN Max(SeqMax(xs, lo, mid), SeqMax(xs, mid + 1, hi))

\* statistics that take every maximum from the last sample
StatisticsOfLast(traj) ==
  LET n == Len(traj)
  IN [maxHeight      |-> traj[n].h,
      maxVelocity    |-> traj[n].v,
      maxMach        |-> traj[n].mach,
      impactVelocity |-> traj[n].v,
      impactMach     |-> traj[n].v \div 340,
      flightTime     |-> traj[n].t,
      trajectoryPoints |-> n]

\* the statistics computed after the loop (the great-circle range is left out)
Statistics(traj) ==
  LET n == Len(traj)
      impactVelocity == traj[n].v
  IN [maxHeight      |-> SeqMax([i \in 1..n |-> traj[i].h], 1, n),
      maxVelocity    |-> SeqMax([i \in 1..n |-> traj[i].v], 1, n),
      maxMach        |-> SeqMax([i \in 1..n |-> traj[i].mach], 1, n),
      impactVelocity |-> impactVelocity,
      impactMach     |-> impactVelocity \div 340,
      flightTime     |-> traj[n].t,
      trajectoryPoints |-> n]

\* runSimulation after the loop: setTrajectoryData, setStats, setIsSimulating(false)
Publish ==
  /\ pc = "done"
  /\ trajectoryData' = "trajectory"
  /\ stats' = Statistics(trajectory)
  /\ isSimulating' = FALSE
  /\ pc' = "idle"
  /\ UNCHANGED <<mode, selectedMissile, formVars, missiles, params, state, t, separated,
                 trajectory, kEvals, isAnimating, animationIndex, probe, appVars>>

Finish == Publish /\ UNCHANGED ref

\* clearSimulation (the Clear button)
clearSimulation ==
  /\ Idle
  /\ ~isSimulating /\ ~isAnimating
  /\ trajectoryData' = "null"
  /\ stats' = NULL
  /\ animationIndex' = 0
  /\ isAnimating' = FALSE
  /\ trajectory' = <<>>
  /\ UNCHANGED <<mode, selectedMissile, formVars, missiles, pc, params, state, t, separated,
                 kEvals, isSimulating, ref, probe, appVars>>

----------------------------------------------------------------------------
(* Parameter sets typed into the manual form                               *)

DefaultCase ==
  [elevationAngle |-> Num(DefaultElevationAngle), launchMass |-> Num(DefaultLaunchMass),
   thrustToWeight |-> Num(DefaultThrustToWeight), dragCoeff |-> Num(DefaultDragCoeff),
   isp |-> Num(DefaultIsp), launchHeight |-> Num(DefaultLaunchHeight)]

\* the lowest launch mass the form's clamp lets through
InversionCase == [DefaultCase EXCEPT !.launchMass = Num(1000)]

\* a specific impulse typed and launched without leaving the field
EscapeCase ==
  [DefaultCase EXCEPT !.launchMass = Num(250000), !.thrustToWeight = Num(500),
                      !.isp = Num(5000)]

\* a thrust-to-weight ratio of 0 typed and launched without leaving the field
UnpoweredCase == [DefaultCase EXCEPT !.thrustToWeight = Num(0)]

ManualCases == {DefaultCase, InversionCase, UnpoweredCase}

\* the six onChange handlers, one after the other, for the entries of c
TypeManual(c) ==
  /\ ManualPanel
  /\ elevationAngle' = ChangedElevation(elevationAngle, c.elevationAngle)
  /\ launchMass'     = ChangedNonNeg(launchMass, c.launchMass)
  /\ thrustToWeight' = ChangedNonNeg(thrustToWeight, c.thrustToWeight)
  /\ dragCoeff'      = ChangedNonNeg(dragCoeff, c.dragCoeff)
  /\ isp'            = ChangedNonNeg(isp, c.isp)
  /\ launchHeight'   = ChangedNonNeg(launchHeight, c.launchHeight)
  /\ UNCHANGED <<mode, selectedMissile, missiles, runVars, uiVars, ref, probe, appVars>>

----------------------------------------------------------------------------
(* app.jsx: the projectile view, the run history and the session           *)

\* the registered accounts
Users == {"alice", "bob"}

\* bodies of an OK /predict response
Responses ==
  { [xs |-> <<0, 10>>, ys |-> <<5, 0>>, impact_physics |-> 10, trajectory_points |-> 2],
    [xs |-> <<0, 20, 40>>, ys |-> <<0, 9, 0>>, impact_physics |-> 40, trajectory_points |-> 3] }

\* pending timers and history entries the driver lets accumulate
MaxTimers == 2
MaxHistory == 2

\* App after its first render, with no saved session
InitApp ==
  /\ app = [user |-> NULL, xs |-> <<>>, ys |-> <<>>, impactDistance |-> NULL,
            stats |-> NULL, loading |-> FALSE, error |-> NULL, history |-> <<>>,
            isAnimating |-> FALSE, animationComplete |-> FALSE,
            currentAnimationIndex |-> 0]
  /\ localStorage = [u \in Users |-> <<>>]
  /\ request = NULL
  /\ timers = 0

\* the effect on [history, user]: the history is written under the key of
\* the user now logged in
SaveHistory(a, store) ==
  IF a.user # NULL /\ Len(a.history) > 0
  THEN [store EXCEPT ![a.user.username] = a.history]
  ELSE store

\* the main page is rendered
Authenticated == app.user # NULL

\* runSimulation of App up to its await: the request carries the id
\* computed from the history of the render the click came from; `by` is
\* the user who clicked, kept for the observer
AppRunSimulation ==
  /\ Authenticated
  /\ ~app.loading /\ ~app.isAnimating
  /\ timers < MaxTimers /\ Len(app.history) < MaxHistory
  /\ app' = [app EXCEPT !.loading = TRUE, !.error = NULL, !.isAnimating = FALSE,
                        !.animationComplete = FALSE, !.currentAnimationIndex = 0]
  /\ request' = [id |-> Len(app.history) + 1, by |-> app.user.username]
  /\ UNCHANGED <<localStorage, timers, ballisticVars>>

\* runSimulation of App after the await, on an OK response with body data
PredictOk(data) ==
  /\ request # NULL
  /\ app' = [app EXCEPT
               !.xs = data.xs, !.ys = data.ys,
               !.impactDistance = Num(data.impact_physics),
               !.stats = [trajectoryPoints |-> data.trajectory_points],
               !.history = Append(@, [id |-> request.id, type |-> "projectile",
                                      by |-> request.by]),
               !.loading = FALSE]
  /\ timers' = timers + 1
  /\ request' = NULL
  /\ localStorage' = SaveHistory(app', localStorage)
  /\ UNCHANGED ballisticVars

\* a failure handler that also takes the displayed results down
PredictFailClearing ==
  /\ request # NULL
  /\ app' = [app EXCEPT !.error = [message |-> "Server error"], !.loading = FALSE,
                        !.xs = <<>>, !.ys = <<>>, !.impactDistance = NULL, !.stats = NULL]
  /\ request' = NULL
  /\ UNCHANGED <<localStorage, timers, ballisticVars>>

\* runSimulation of App after the await, on a non-OK status or a network
\* error: catch and finally
PredictFail ==
  /\ request # NULL
  /\ app' = [app EXCEPT !.error = [message |-> "Server error"], !.loading = FALSE]
  /\ request' = NULL
  /\ UNCHANGED <<localStorage, timers, ballisticVars>>

\* a 300 ms timer fires: setIsAnimating(true)
StartAnimation ==
  /\ timers > 0
  /\ timers' = timers - 1
  /\ app' = [app EXCEPT !.isAnimating = TRUE]
  /\ UNCHANGED <<localStorage, request, ballisticVars>>

\* the animation effect's timeout
animate ==
  /\ app.isAnimating /\ Len(app.xs) # 0
  /\ app' = IF app.currentAnimationIndex >= Len(app.xs) - 1
            THEN [app EXCEPT !.isAnimating = FALSE, !.animationComplete = TRUE]
            ELSE [app EXCEPT !.currentAnimationIndex = @ + 1]
  /\ UNCHANGED <<localStorage, request, timers, ballisticVars>>

\* clearSimulation of App (the Clear button)
AppClearSimulation ==
  /\ Authenticated
  /\ ~app.loading /\ ~app.isAnimating
  /\ app' = [app EXCEPT !.xs = <<>>, !.ys = <<>>, !.impactDistance = NULL,
                        !.stats = NULL, !.error = NULL, !.isAnimating = FALSE,
                        !.animationComplete = FALSE, !.currentAnimationIndex = 0]
  /\ UNCHANGED <<localStorage, request, timers, ballisticVars>>

\* clearAllRuns, confirmed
clearAllRuns ==
  /\ Authenticated
  /\ Len(app.history) # 0
  /\ app' = [app EXCEPT !.history = <<>>, !.xs = <<>>, !.ys = <<>>,
                        !.impactDistance = NULL, !.stats = NULL, !.isAnimating = FALSE,
                        !.animationComplete = FALSE, !.currentAnimationIndex = 0]
  /\ localStorage' = [localStorage EXCEPT ![app.user.username] = <<>>]
  /\ UNCHANGED <<request, timers, ballisticVars>>

\* replayAnimation of App (the Replay button)
AppReplayAnimation ==
  /\ Authenticated
  /\ Len(app.xs) # 0 /\ ~app.isAnimating
  /\ app' = [app EXCEPT !.currentAnimationIndex = 0, !.animationComplete = FALSE,
                        !.isAnimating = TRUE]
  /\ UNCHANGED <<localStorage, request, timers, ballisticVars>>

\* the onSaveRun prop of <Ballistic>, called by a run of the ballistic view
onSaveRun ==
  /\ Authenticated
  /\ Len(app.history) < MaxHistory
  /\ app' = [app EXCEPT !.history = Append(@, [id |-> Len(@) + 1, type |-> "ballistic",
                                               by |-> app.user.username])]
  /\ localStorage' = SaveHistory(app', localStorage)
  /\ UNCHANGED <<request, timers, ballisticVars>>

\* handleLogin with the user data of the login form, which carries the
\* history stored for the user
handleLogin(username) ==
  /\ ~Authenticated
  /\ app' = [app EXCEPT !.user = [username |-> username],
                        !.history = localStorage[username]]
  /\ localStorage' = SaveHistory(app', localStorage)
  /\ UNCHANGED <<request, timers, ballisticVars>>

handleLogout ==
  /\ Authenticated
  /\ app' = [app EXCEPT !.user = NULL, !.history = <<>>, !.xs = <<>>, !.ys = <<>>,
                        !.stats = NULL, !.impactDistance = NULL]
  /\ UNCHANGED <<localStorage, request, timers, ballisticVars>>

----------------------------------------------------------------------------
(* Specifications                                                          *)

InitForm(c) ==
  /\ mode = "manual"
  /\ selectedMissile = "minuteman3"
  /\ elevationAngle = c.elevationAngle
  /\ launchMass = c.launchMass
  /\ thrustToWeight = c.thrustToWeight
  /\ dragCoeff = c.dragCoeff
  /\ isp = c.isp
  /\ launchHeight = c.launchHeight
  /\ missiles = REAL_MISSILES

InitRun ==
  /\ pc = "idle"
  /\ params = NULL
  /\ state = <<0, 0, 0, 0, 0>>
  /\ t = 0
  /\ separated = FALSE
  /\ trajectory = <<>>
  /\ kEvals = <<>>
  /\ trajectoryData = "null"
  /\ stats = NULL
  /\ isSimulating = FALSE
  /\ isAnimating = FALSE
  /\ animationIndex = 0
  /\ ref = NULL
  /\ probe = NULL
  /\ InitApp

\* the component after its first render
Init == InitForm(DefaultCase) /\ InitRun

\* the presets launched under Spec
RunKeys == {"trident2", "iskander", "v2"}

\* the driver: presets and typed parameter sets, launched in any order
Next ==
  \/ \E m \in {"manual", "preset"} : SetMode(m)
  \/ \E key \in RunKeys : SelectMissile(key)
  \/ \E c \in ManualCases : TypeManual(c)
  \/ Launch
  \/ LoopIter
  \/ Finish
  \/ clearSimulation

Spec == Init /\ [][Next]_vars

\* the form: every handler of the manual panel and every preset, up to the
\* point where runSimulation has read its parameters
FormNext ==
  \/ \E m \in {"manual", "preset"} : SetMode(m)
  \/ \E key \in DOMAIN REAL_MISSILES : SelectMissile(key)
  \/ \E val \in ElevationInputs : OnChangeElevationAngle(val)
  \/ OnBlurElevationAngle
  \/ \E val \in MassInputs : OnChangeLaunchMass(val)
  \/ OnBlurLaunchMass
  \/ \E val \in ThrustInputs : OnChangeThrustToWeight(val)
  \/ OnBlurThrustToWeight
  \/ \E val \in DragInputs : OnChangeDragCoeff(val)
  \/ OnBlurDragCoeff
  \/ \E val \in IspInputs : OnChangeIsp(val)
  \/ OnBlurIsp
  \/ \E val \in HeightInputs : OnChangeLaunchHeight(val)
  \/ OnBlurLaunchHeight
  \/ Launch

FormSpec == Init /\ [][FormNext]_vars

----------------------------------------------------------------------------
(* Repeated runs, with the first completed run kept for comparison         *)

\* ref remembers the first completed run; others: a run with other
\* parameters has completed since; again: a run with the same parameters
\* has completed after such a run
Observe ==
  IF ref = NULL
  THEN [params |-> params, trajectory |-> trajectory, stats |-> Statistics(trajectory),
        others |-> FALSE, again |-> FALSE]
  ELSE IF params = ref.params
  THEN [ref EXCEPT !.again = ref.again \/ ref.others]
  ELSE [ref EXCEPT !.others = TRUE]

FinishObserved == Publish /\ ref' = Observe

\* the Iskander preset has been picked in the preset panel and the manual
\* panel is open again
InitDet ==
  /\ mode = "manual"
  /\ selectedMissile = "iskander"
  /\ elevationAngle = DefaultCase.elevationAngle
  /\ launchMass = DefaultCase.launchMass
  /\ thrustToWeight = DefaultCase.thrustToWeight
  /\ dragCoeff = DefaultCase.dragCoeff
  /\ isp = DefaultCase.isp
  /\ launchHeight = DefaultCase.launchHeight
  /\ missiles = REAL_MISSILES
  /\ InitRun

\* the presets launched under DetSpec
DetKeys == {"iskander", "tomahawk"}

DetNext ==
  \/ \E m \in {"manual", "preset"} : SetMode(m)
  \/ \E key \in DetKeys : SelectMissile(key)
  \/ Launch
  \/ LoopIter
  \/ FinishObserved

DetSpec == InitDet /\ [][DetNext]_vars

----------------------------------------------------------------------------
(* Runs from typed parameter sets, one of which never comes down           *)

\* launch masses and elevation angles typed into the form
CeilMasses == {1000, 3000, 6200, 9000}
CeilAngles == {10, 45, 60, 75, 90}

CeilCases ==
  {EscapeCase} \cup
  {[DefaultCase EXCEPT !.launchMass = Num(lm), !.elevationAngle = Num(ea)] :
      lm \in CeilMasses, ea \in CeilAngles}

InitCeil == \E c \in CeilCases : InitForm(c) /\ InitRun

\* Launch pressed while nothing is displayed
LaunchCleared == stats = NULL /\ Launch

\* every run starts from a cleared display, so that the stale results of the
\* previous run do not tell otherwise equal runs apart
CeilNext ==
  \/ LaunchCleared
  \/ RunLoop
  \/ Finish
  \/ clearSimulation

CeilSpec == InitCeil /\ [][CeilNext]_vars

----------------------------------------------------------------------------
(* getDragCoefficient evaluated on its own                                 *)

\* drag coefficients in hundredths: the form's range and the presets' values
DragBases == {0, 5, 100} \cup (8 .. 25)

\* Mach numbers in thousandths, at and around the breakpoints
MachProbes == {0, 799, 800, 801, 1199, 1200, 1201, 4999, 5000, 5001, 6000}

Probe(b, mach) ==
  /\ probe' = [baseCd |-> b, mach |-> mach, cd |-> getDragCoefficient(b, mach)]
  /\ UNCHANGED <<mode, selectedMissile, formVars, missiles, runVars, uiVars, ref, appVars>>

DragNext == \E b \in DragBases, mach \in MachProbes : Probe(b, mach)

DragSpec == Init /\ [][DragNext]_vars

----------------------------------------------------------------------------
(* getAirDensity and getSpeedOfSound evaluated on their own                *)

\* the altitudes where the formula changes
BandEdges == {11000, 20000, 32000, 84000}

\* altitudes in m: every kilometre up to 90 km, below the surface, and at
\* and around the band edges
AltProbes ==
  {k * 1000 : k \in 0 .. 90} \cup {-500, -30, -1, 1}
     \cup {e + d : e \in BandEdges, d \in {-2, -1, 1, 2}}

ProbeAir(altitude) ==
  /\ probe' = [altitude |-> altitude, rho |-> getAirDensity(altitude),
               sound |-> getSpeedOfSound(altitude)]
  /\ UNCHANGED <<mode, selectedMissile, formVars, missiles, runVars, uiVars, ref, appVars>>

AtmoNext == \E altitude \in AltProbes : ProbeAir(altitude)

AtmoSpec == Init /\ [][AtmoNext]_vars

----------------------------------------------------------------------------
(* decidePointing evaluated on its own, inside a run that has read EA      *)

\* elevation angles typed into the form
PointCases == {[DefaultCase EXCEPT !.elevationAngle = Num(ea)] : ea \in {10, 45, 75, 90}}

\* positions (m): on the launch axis below, at and above 10 km, and off it
PointPositions ==
  {<<0, R_E + a>> : a \in {-30, 0, 5000, 10000, 10001, 50000, 90000}}
     \cup {<<1000000, 6300000>>, <<-1000000, 6300000>>}

\* velocities (mm/s): at rest, up, down, sideways and mixed
PointVelocities ==
  {<<0, 0>>, <<0, 100000>>, <<0, -100000>>, <<500000, 0>>, <<300000, 300000>>,
   <<300000, -300000>>, <<-200000, 50000>>}

InitPoint == \E c \in PointCases : InitForm(c) /\ InitRun

\* decidePointing, and derivatives at t = 0 with the tanks full or empty,
\* applied once to a position and a velocity
PointAt(r, v, empty) ==
  /\ pc = "loop" /\ probe = NULL
  /\ probe' = [x |-> r[1], y |-> r[2], vx |-> v[1], vy |-> v[2],
               phat |-> decidePointing(r[1], r[2], v[1], v[2]),
               eval |-> derivatives(<<r[1], r[2], v[1], v[2], IF empty THEN m_f ELSE m_0>>,
                                    0, FreshSeparated)]
  /\ UNCHANGED <<mode, selectedMissile, formVars, missiles, runVars, uiVars, ref, appVars>>

PointNext ==
  \/ \E m \in {"manual", "preset"} : SetMode(m)
  \/ \E key \in DOMAIN REAL_MISSILES : SelectMissile(key)
  \/ Launch
  \/ \E r \in PointPositions, v \in PointVelocities, empty \in BOOLEAN : PointAt(r, v, empty)

PointSpec == InitPoint /\ [][PointNext]_vars

----------------------------------------------------------------------------
(* The projectile view and the history of App                              *)

\* one user's session in the projectile view: launches, responses, the
\* start timer, animation ticks and the buttons
AnimNext ==
  \/ handleLogin("alice")
  \/ AppRunSimulation
  \/ \E data \in Responses : PredictOk(data)
  \/ PredictFail
  \/ StartAnimation
  \/ animate
  \/ AppClearSimulation
  \/ clearAllRuns
  \/ AppReplayAnimation

AnimSpec == Init /\ [][AnimNext]_vars

\* the history under launches from both views, responses, Clear All Runs
\* and changes of user
HistNext ==
  \/ \E username \in Users : handleLogin(username)
  \/ handleLogout
  \/ AppRunSimulation
  \/ \E data \in Responses : PredictOk(data)
  \/ clearAllRuns
  \/ onSaveRun

HistSpec == Init /\ [][HistNext]_vars

----------------------------------------------------------------------------
(* Claims                                                                  *)

Last(seq) == seq[Len(seq)]

\* a run is in its loop or has left it and not yet published
Running == pc \in {"loop", "done"}

\* C1: a run with the parameters of the first completed run records the
\* same samples, one by one while the loop runs and as a whole once it has
\* ended, and publishes the same statistics, whatever ran in between
C1_Deterministic ==
  (ref # NULL /\ params = ref.params) =>
     /\ pc = "loop" /\ trajectory # <<>> =>
           /\ Len(trajectory) <= Len(ref.trajectory)
           /\ Last(trajectory) = ref.trajectory[Len(trajectory)]
     /\ pc = "done" => trajectory = ref.trajectory
     /\ pc = "idle" /\ trajectoryData = "trajectory" =>
           trajectory = ref.trajectory /\ stats = ref.stats

\* C1 witness: the parameters of the first run were run again after a run
\* with other parameters, and the rerun has been published
C1_Witness ==
  /\ ref # NULL /\ ref.again
  /\ pc = "idle" /\ trajectoryData = "trajectory"
  /\ params = ref.params
  /\ Len(trajectory) > 1

\* C2: the loop is left after at most maxTime/dt passes, each of which has
\* recorded one sample, dt after the one before and with t < maxTime; when
\* it is left, at the ceiling as well, there is a sample to compute
\* statistics from and the statistics published count the samples
C2_Terminates ==
  /\ Len(trajectory) <= MaxSamples
  /\ pc = "loop" => t = dt * Len(trajectory) /\ t < maxTime
  /\ pc = "done" =>
        /\ trajectory # <<>>
        /\ \A i \in 1 .. Len(trajectory) :
              trajectory[i].t = dt * (i - 1) /\ trajectory[i].t < maxTime
  /\ pc = "idle" /\ trajectoryData = "trajectory" =>
        stats # NULL /\ stats.trajectoryPoints = Len(trajectory)
                     /\ stats.flightTime = Last(trajectory).t

\* C2 witness: a run that never came down was cut at the ceiling and
\* published
C2_Witness ==
  /\ pc = "idle" /\ trajectoryData = "trajectory"
  /\ Len(trajectory) = MaxSamples
  /\ Last(trajectory).h > 0
  /\ stats.flightTime = maxTime - dt

\* below the surface after the grace period
Grounded(p) == p.h < 0 /\ p.t > GraceTime

\* C3: while the loop runs no recorded sample is below the surface after
\* 10 s; a run that ends before the ceiling ends on such a sample, which is
\* the only one; so a sample below the surface at t <= 10 s ends nothing
C3_GroundHit ==
  /\ pc = "loop" /\ trajectory # <<>> => ~Grounded(Last(trajectory))
  /\ pc = "done" =>
        /\ Grounded(Last(trajectory)) \/ Last(trajectory).t = maxTime - dt
        /\ \A i \in 1 .. Len(trajectory) - 1 : ~Grounded(trajectory[i])

\* C3 witness: a run that started below the surface has gone on and ended
\* on a later ground hit
C3_Witness ==
  /\ pc = "done"
  /\ trajectory[1].h < 0 /\ trajectory[1].t = 0
  /\ Len(trajectory) > 1
  /\ Grounded(Last(trajectory))

\* the last two samples recorded
Prev(seq) == seq[Len(seq) - 1]

\* C4 as stated: from one sample to the next the mass never grows, and it
\* is unchanged when the earlier sample has t >= burnTime
C4_MassConstantAfterBurnTime ==
  (Running /\ Len(trajectory) >= 2) =>
     /\ Last(trajectory).m <= Prev(trajectory).m
     /\ ~BeforeBurnTime(Prev(trajectory).t, 4) =>
           Last(trajectory).m = Prev(trajectory).m

\* C4 as amended: from one sample to the next the mass never grows, and it
\* is unchanged when the earlier sample has t >= 1.5 * burnTime
C4_MassConstantAfterMargin ==
  (Running /\ Len(trajectory) >= 2) =>
     /\ Last(trajectory).m <= Prev(trajectory).m
     /\ ~BeforeBurnTime(Prev(trajectory).t, 6) =>
           Last(trajectory).m = Prev(trajectory).m

\* C4 witness: the margin has run out with propellant left, after mass was
\* burnt, and the mass has stayed
C4_Witness ==
  /\ pc = "loop" /\ Len(trajectory) >= 2
  /\ ~BeforeBurnTime(Prev(trajectory).t, 6)
  /\ Last(trajectory).m = Prev(trajectory).m
  /\ Last(trajectory).m < m_0
  /\ Last(trajectory).m > m_f

\* C5: every run starts with the flag false, and a flag that is true stays
\* true until the next run starts: from step to step, and from one
\* evaluation of derivatives to the next inside a step
C5_SeparatedOneWay ==
  [][ /\ (pc = "idle" /\ pc' = "loop") => ~separated'
      /\ (separated /\ ~(pc = "idle" /\ pc' = "loop")) => separated'
      /\ (pc = "loop" /\ kEvals' # <<>>) =>
            /\ separated => kEvals'[1].separated
            /\ \A i \in 1 .. 3 : kEvals'[i].separated => kEvals'[i + 1].separated
            /\ kEvals'[4].separated => separated' ]_vars

\* C5 witness: the flag was set in one step and the next step began with
\* the engine burning again, the mass being above the empty mass
C5_Witness ==
  /\ pc = "loop" /\ separated
  /\ kEvals # <<>>
  /\ kEvals[1].thrust /\ kEvals[1].separated /\ kEvals[1].m > m_f

\* emptyMass > launchMass, or a drag coefficient <= 0
InvalidParams ==
  \/ params.emptyMass > ToNum(params.launchMass)
  \/ ToNum(params.dragCoeff) <= 0

\* C6: a run whose parameters are invalid records no sample
C6_FailFast ==
  (params # NULL /\ InvalidParams) => trajectory = <<>>

\* every field of the manual form is what its onBlur handler leaves
FieldsClamped ==
  /\ elevationAngle = BlurClamp(elevationAngle, DefaultElevationAngle, 10, 90)
  /\ launchMass = BlurClamp(launchMass, DefaultLaunchMass, 1000, 250000)
  /\ thrustToWeight = BlurClamp(thrustToWeight, DefaultThrustToWeight, 50, 500)
  /\ dragCoeff = BlurClamp(dragCoeff, DefaultDragCoeff, 5, 100)
  /\ isp = BlurClamp(isp, DefaultIsp, 100, 500)
  /\ launchHeight = BlurHeight(launchHeight)

\* C7: the parameters read by a run launched from a preset, or from the
\* manual form with every field clamped, have emptyMass <= launchMass, a
\* drag coefficient > 0 and a release height >= 0
C7_ParamsInvariant ==
  (pc = "loop" /\ (mode = "preset" \/ FieldsClamped)) =>
     /\ params.emptyMass <= ToNum(params.launchMass)
     /\ ToNum(params.dragCoeff) > 0
     /\ ToNum(params.launchHeight) >= 0

\* a numeric field value within lo .. hi
Within(v, lo, hi) == ~IsNaN(v) /\ lo <= v.n /\ v.n <= hi

\* C8: the parameters read by a run launched from the manual form lie in
\* the documented domains, whatever onChange and onBlur came before
C8_ManualDomains ==
  (pc = "loop" /\ mode = "manual") =>
     /\ Within(params.elevationAngle, 10, 90)
     /\ Within(params.launchMass, 1000, 250000)
     /\ Within(params.thrustToWeight, 50, 500)
     /\ Within(params.dragCoeff, 5, 100)
     /\ Within(params.isp, 100, 500)
     /\ Within(params.launchHeight, 0, 50000)

\* C9: the table is never changed, and the parameters of every run launched
\* from a preset are the fields of that preset's entry, so that two
\* resolutions of one key give equal parameters
C9_PresetRoundTrip ==
  /\ missiles = REAL_MISSILES
  /\ (Running /\ mode = "preset") =>
        /\ \A f \in {"elevationAngle", "launchMass", "thrustToWeight", "dragCoeff",
                     "isp", "launchHeight"} :
              params[f] = Num(REAL_MISSILES[selectedMissile][f])
        /\ \A f \in {"emptyMass", "warheadMass", "burnTime"} :
              params[f] = REAL_MISSILES[selectedMissile][f]

\* C9 witness: the preset of the first completed run has been resolved again,
\* after a run with other parameters, and gave the same parameters
C9_Witness ==
  /\ pc = "loop" /\ trajectory = <<>>
  /\ mode = "preset"
  /\ ref # NULL /\ ref.others
  /\ params = ref.params

\* the branch that applies just below mach, evaluated at mach
BranchBelow(b, mach) ==
  IF mach <= 800 THEN CdSubsonic(b, mach)
  ELSE IF mach <= 1200 THEN CdTransonic(b, mach)
  ELSE IF mach <= 5000 THEN CdSupersonic(b, mach)
  ELSE CdHypersonic(b, mach)

\* C10: at Mach 0.8, 1.2 and 5 the value of getDragCoefficient equals the
\* value the branch below the breakpoint takes there
C10_Continuous ==
  (probe # NULL /\ probe.mach \in {800, 1200, 5000}) =>
     probe.cd = BranchBelow(probe.baseCd, probe.mach)

\* two densities agree to one part in a thousand, or to 1 mg/m^3
Close(a, b) == Abs(a - b) * 1000 <= Max(a, b) + 1000

\* C11: at each of the band edges 11 km, 20 km, 32 km and 84 km the density
\* at the edge (the upper boundary of the band below) agrees with the
\* density one metre above it (the lower boundary of the band above)
C11_AtmosphereContinuous ==
  (probe # NULL /\ probe.altitude \in BandEdges) =>
     Close(probe.rho, getAirDensity(probe.altitude + 1))

\* the bands as half-open intervals [0, 11000), [11000, 20000),
\* [20000, 32000), [32000, 84000) and nothing from 84000 on
HalfOpenDensity(alt) ==
  LET altitude == IF alt < 0 THEN 0 ELSE alt
  IN IF altitude < 11000 THEN RhoTroposphere(altitude)
     ELSE IF altitude < 20000 THEN RhoLowerStratosphere(altitude)
     ELSE IF altitude < 32000 THEN RhoUpperStratosphere(altitude)
     ELSE IF altitude < 84000 THEN RhoMesosphere(altitude)
     ELSE 0

HalfOpenSound(altitude) ==
  SoundAt(IF altitude < 11000 THEN TTroposphere(altitude)
          ELSE IF altitude < 20000 THEN TLowerStratosphere(altitude)
          ELSE IF altitude < 32000 THEN TUpperStratosphere(altitude)
          ELSE TMesosphere(altitude))

\* C18: at every altitude, the band edges included, getAirDensity and
\* getSpeedOfSound give the value of the band whose half-open interval
\* holds the altitude; the density is 0 from 84000 m on
C18_HalfOpenBands ==
  probe # NULL =>
     /\ probe.rho = HalfOpenDensity(probe.altitude)
     /\ probe.sound = HalfOpenSound(probe.altitude)

\* an evaluation computed its drag with the payload-only values
PayloadOnly(e) == e.effectiveMass = m_wh /\ e.effectiveArea = (A4 * 3) \div 10

\* C12: every derivative evaluation of a step uses the payload mass and the
\* reduced cross-section for drag exactly when the mass it evaluates is at
\* most emptyMass, and none applies thrust together with payload-only drag
C12_PayloadDragAtSeparation ==
  \A i \in DOMAIN kEvals :
     /\ PayloadOnly(kEvals[i]) <=> kEvals[i].m <= m_f
     /\ ~(kEvals[i].thrust /\ PayloadOnly(kEvals[i]))

\* C13: between steps the separation flag is set only when the committed
\* state's mass is at most emptyMass, and the next rk4Step on the committed
\* state returns the state it returns when no evaluation has gone before
C13_StepPure ==
  (pc = "loop" /\ separated) =>
     /\ state[5] <= m_f
     /\ rk4Step(state, t, separated).state = rk4Step(state, t, FreshSeparated).state

\* the burn condition of an evaluation: mass > emptyMass and t < 1.5 * burnTime
BurnCondition(e) == e.m > m_f /\ BeforeBurnTime(e.t, 6)

\* the four evaluations of the last step all lie outside the burn condition
CoastStep == kEvals # <<>> /\ \A i \in DOMAIN kEvals : ~BurnCondition(kEvals[i])

\* the mass flow of an evaluation goes with its burn condition, and a step
\* outside the burn condition leaves the mass as it was
MassFlowCoupled ==
  /\ \A i \in DOMAIN kEvals :
        kEvals[i].k[5] = (IF BurnCondition(kEvals[i]) THEN -MassFlow ELSE 0)
  /\ (Running /\ CoastStep) => state[5] = kEvals[1].m

Published == pc = "idle" /\ trajectoryData = "trajectory" /\ stats # NULL

\* m is the maximum of field f over the samples
IsMaxOf(m, f) ==
  /\ \A i \in DOMAIN trajectory : trajectory[i][f] <= m
  /\ \E i \in DOMAIN trajectory : trajectory[i][f] = m

\* C15: the published statistics are those of the whole sample sequence:
\* flightTime is the last sample's time, (trajectoryPoints - 1) * 0.5 s;
\* trajectoryPoints is the number of samples; maxHeight, maxVelocity and
\* maxMach are the maxima over the samples; impactVelocity is the last
\* sample's speed
C15_StatsFromSamples ==
  Published =>
     /\ stats.trajectoryPoints = Len(trajectory)
     /\ stats.flightTime = Last(trajectory).t
     /\ stats.flightTime = (stats.trajectoryPoints - 1) * dt
     /\ IsMaxOf(stats.maxHeight, "h")
     /\ IsMaxOf(stats.maxVelocity, "v")
     /\ IsMaxOf(stats.maxMach, "mach")
     /\ stats.impactVelocity = Last(trajectory).v

\* C15 witness: a published run whose highest, fastest and highest-Mach
\* samples all lie strictly inside the sequence
C15_Witness ==
  /\ Published
  /\ Len(trajectory) > 2
  /\ \A f \in {"h", "v", "mach"} :
        /\ stats[IF f = "h" THEN "maxHeight" ELSE IF f = "v" THEN "maxVelocity" ELSE "maxMach"]
              > Last(trajectory)[f]
        /\ stats[IF f = "h" THEN "maxHeight" ELSE IF f = "v" THEN "maxVelocity" ELSE "maxMach"]
              > trajectory[1][f]

\* C16: the published impact Mach number is the Mach number of the last
\* sample
C16_ImpactMachOfLastSample ==
  Published => stats.impactMach = Last(trajectory).mach

\* the samples recorded so far are in time order from the initial state
Ordered ==
  /\ \A i \in DOMAIN trajectory : trajectory[i].t = (i - 1) * dt
  /\ trajectory # <<>> =>
        /\ trajectory[1].h = launchAltitude
        /\ trajectory[1].m = m_0
  /\ pc = "done" => trajectory # <<>>

\* a pass of the loop appends one sample and leaves the others as they were
AppendsOne ==
  pc = "loop" /\ pc' \in {"loop", "done"} =>
     /\ Len(trajectory') = Len(trajectory) + 1
     /\ SubSeq(trajectory', 1, Len(trajectory)) = trajectory

\* C17: every pass of the loop records exactly one sample, also the pass
\* that ends the run, and never removes or reorders one; the first sample
\* is the initial state at t = 0 (altitude = release height, mass = launch
\* mass), the i-th (0-based) has t = i * 0.5 s, and the list is not empty
\* when the loop is left
C17_AppendOnly == [](Running => Ordered) /\ [][AppendsOne]_vars

\* C17 witness: the loop was left on the ground test, and the sample that
\* met the test is in the list
C17_Witness ==
  /\ pc = "done"
  /\ Len(trajectory) > 2
  /\ HitGround(Last(trajectory))
  /\ Last(trajectory).t = t

\* C19: an evaluation below the surface uses the density and the speed of
\* sound of altitude 0, and the Mach number that drives the drag of the
\* committed state is the Mach number recorded in that state's sample
C19_NegativeAltitudeClamped ==
  (Running /\ kEvals # <<>>) =>
     /\ \A i \in DOMAIN kEvals :
           kEvals[i].h < 0 =>
              /\ kEvals[i].rho = getAirDensity(0)
              /\ kEvals[i].speedOfSound = getSpeedOfSound(0)
     /\ kEvals[1].mach = trajectory[kEvals[1].t \div dt + 1].mach

\* the position and the velocity given to decidePointing
ProbeR == <<probe.x, probe.y>>
ProbeV == <<probe.vx, probe.vy>>

\* the unit velocity direction, the radial unit vector standing in for it
\* when the velocity is exactly zero
VelocityDirection ==
  IF ProbeV = <<0, 0>> THEN normalize(ProbeR) ELSE normalize(ProbeV)

\* at or below 10 km with position . velocity > 0
LowAscent ==
  /\ norm(ProbeR) - R_E <= 10000
  /\ dot(normalize(ProbeR), ProbeV) > 0

\* C20: decidePointing returns the unit position vector rotated by
\* elevationAngle - 90 degrees at or below 10 km while ascending, and the
\* unit velocity direction in every other case: above 10 km, and at or
\* below 10 km when not ascending
C20_PointingPolicy ==
  probe # NULL =>
     /\ LowAscent => probe.phat = rotate(normalize(ProbeR), EA - 90)
     /\ ~LowAscent => probe.phat = VelocityDirection

\* C20 witness: a low ascending state was pointed at the elevation angle,
\* away from its velocity
C20_Witness ==
  /\ probe # NULL
  /\ LowAscent
  /\ probe.phat = rotate(normalize(ProbeR), EA - 90)
  /\ probe.phat # VelocityDirection

\* no divisor of an evaluation is zero: the speed of sound, the distance
\* from the Earth's centre, the mass under thrust, the mass under drag, the
\* launch mass, the exhaust velocity and the mass flow of the burn estimate
DivisorsNonZero(e) ==
  /\ e.speedOfSound > 0
  /\ e.h + R_E > 0
  /\ e.thrust => e.m > 0
  /\ e.effectiveMass > 0
  /\ m_0 > 0
  /\ ToNum(params.isp) > 0
  /\ params.burnTime = 0 => MassFlow > 0

\* C21: for every preset and every clamped manual parameter set, an
\* evaluation has zero drag when the speed is zero or the density is zero,
\* which it is above 84 km; at zero speed the pointing falls back to the
\* radial unit vector instead of normalising the velocity; and no divisor
\* is zero
C21_DegeneracyAbsorbed ==
  (probe # NULL /\ (mode = "preset" \/ FieldsClamped)) =>
     /\ (probe.eval.v = 0 \/ probe.eval.rho = 0) => probe.eval.drag = <<0, 0>>
     /\ probe.eval.h > 84000 => probe.eval.rho = 0
     /\ probe.eval.v = 0 => probe.eval.phat = normalize(ProbeR)
     /\ DivisorsNonZero(probe.eval)

\* C21 witness: an evaluation at rest above 84 km from a preset, with the
\* tanks empty: no drag, radial pointing
C21_Witness ==
  /\ probe # NULL /\ mode = "preset"
  /\ probe.eval.v = 0 /\ probe.eval.rho = 0 /\ probe.eval.h > 84000
  /\ probe.eval.isSeparated
  /\ probe.eval.drag = <<0, 0>>
  /\ probe.eval.phat = normalize(ProbeR)

\* thrust is active at sample p: mass > emptyMass and t < 1.5 * burnTime
ThrustActive(p) == p.m > m_f /\ BeforeBurnTime(p.t, 6)

\* C22: the newest sample is tagged 'powered' only if thrust is active at
\* it and 'ballistic' if it is not, and it is not tagged 'powered' after a
\* sample tagged 'ballistic'; as every sample is the newest once, this
\* holds for all samples of the run
C22_PhaseMatchesPropulsion ==
  (Running /\ trajectory # <<>>) =>
     /\ Last(trajectory).phase = "powered" <=> ThrustActive(Last(trajectory))
     /\ (Len(trajectory) > 1 /\ Prev(trajectory).phase = "ballistic") =>
           Last(trajectory).phase = "ballistic"

\* C23: in a run whose launch mass is at least emptyMass, the newest
\* sample's mass is at least emptyMass
C23_NoOvershoot ==
  (Running /\ trajectory # <<>> /\ m_0 >= m_f) => Last(trajectory).m >= m_f

\* C24: in the projectile view isAnimating is true only while there are
\* points to animate (with none, the animation effect schedules no tick,
\* the flag stays, and Launch, Clear and Replay stay disabled)
C24_AnimatingHasData == app.isAnimating => Len(app.xs) > 0

\* C25: whenever xs is not empty, currentAnimationIndex addresses one of
\* its points
C25_IndexInRange ==
  Len(app.xs) > 0 => app.currentAnimationIndex <= Len(app.xs) - 1

\* C26: the i-th run of the history (counted from 1) has id i
C26_SequentialIds == \A i \in DOMAIN app.history : app.history[i].id = i

\* C27: every run in the history on display was launched by the user
\* logged in, and every run stored under a user's key was launched by
\* that user
C27_HistoryPerUser ==
  /\ Authenticated =>
        \A i \in DOMAIN app.history : app.history[i].by = app.user.username
  /\ \A u \in Users :
        \A i \in DOMAIN localStorage[u] : localStorage[u][i].by = u

\* the request in flight ends in failure
FailureStep == request # NULL /\ request' = NULL /\ app'.error # NULL

\* C28: the step in which a /predict request fails sets error and ends
\* loading, and leaves the history, the stored histories, the displayed
\* xs, ys, impact distance and stats, and the pending start timers as
\* they were
C28_FailureLeavesResults ==
  [][FailureStep =>
       /\ app'.loading = FALSE
       /\ app'.history = app.history /\ localStorage' = localStorage
       /\ app'.xs = app.xs /\ app'.ys = app.ys
       /\ app'.impactDistance = app.impactDistance /\ app'.stats = app.stats
       /\ timers' = timers]_vars

\* C28 witness: a request has failed while the results of an earlier run
\* are on display
C28_Witness ==
  /\ app.error # NULL /\ ~app.loading /\ request = NULL
  /\ Len(app.xs) > 0 /\ app.stats # NULL
  /\ Len(app.history) > 0

====
